---- MODULE Spec2Model ----
(***************************************************************************)
(* Model of haystack's TransformersSimilarityRanker                        *)
(* (src/haystack/components/rankers/transformers_similarity.py).           *)
(*                                                                         *)
(* Conventions.                                                            *)
(*  - An Optional[T] value is a sequence: <<>> is None, <<v>> is v.        *)
(*  - Strings are TLA+ strings, concatenated with \o.                      *)
(*  - Scores are fixed point numbers in thousandths: the raw logit l is    *)
(*    the score 1000 * l, sigmoid values are rounded to three decimals.    *)
(*    Logits and calibration factors are whole numbers, with a product     *)
(*    between -7 and 7: beyond that, distinct sigmoid values would round   *)
(*    to the same thousandth.                                              *)
(*  - A Document is an object: the field id of a record stands for the     *)
(*    identity of the object, and a list may hold one object at several    *)
(*    positions. Writing the score of an object shows at each of them.     *)
(*  - A metadata value is a tagged record (kind, int, str, bool), since a  *)
(*    Python dict may hold values of any type.                             *)
(*  - The cross-encoder is external and, in eval mode, a function of the   *)
(*    pair: its logits are any sequence with one entry per query/document  *)
(*    pair that gives equal pairs equal logits.                            *)
(*  - self.model (the model name) is a non-empty string, as in every       *)
(*    configuration that can be warmed up.                                 *)
(***************************************************************************)
EXTENDS Integers, Sequences, FiniteSets, TLC

VARIABLES
    ranker,            \* the fields of self, _model being "is loaded"
    pc,                \* position of the caller: "idle" or "returned"
    call,              \* arguments of the last call of run
    documents,         \* the caller's documents list (run sets .score)
    query_doc_pairs,   \* local of run
    logits,            \* what the cross-encoder returned for the pairs
    similarity_scores, \* local of run (after optional scaling)
    sorted_indices,    \* local of run
    score_writes,      \* the writes documents[i].score = s, as <<i, s>>
    ranked_docs,       \* local of run, after the threshold filter
    result             \* outcome of run and the returned documents

vars == <<ranker, pc, call, documents, query_doc_pairs, logits,
          similarity_scores, sorted_indices, score_writes, ranked_docs,
          result>>

----------------------------------------------------------------------------
(* Bounds *)

MaxDocs == 3

----------------------------------------------------------------------------
(* Optional values and Python truthiness *)

None == <<>>

Some(v) == <<v>>

IntVal(n) == [kind |-> "int", int |-> n, str |-> "", bool |-> FALSE]

StrVal(s) == [kind |-> "str", int |-> 0, str |-> s, bool |-> FALSE]

BoolVal(b) == [kind |-> "bool", int |-> 0, str |-> "", bool |-> b]

\* bool(v) of a metadata value
Truthy(v) ==
    CASE v.kind = "int" -> v.int # 0
      [] v.kind = "str" -> v.str # ""
      [] v.kind = "bool" -> v.bool
      [] OTHER -> FALSE

Digit(d) ==
    CASE d = 0 -> "0" [] d = 1 -> "1" [] d = 2 -> "2" [] d = 3 -> "3"
      [] d = 4 -> "4" [] d = 5 -> "5" [] d = 6 -> "6" [] d = 7 -> "7"
      [] d = 8 -> "8" [] OTHER -> "9"

RECURSIVE IntToStr(_)
IntToStr(n) ==
    IF n < 0 THEN "-" \o IntToStr(0 - n)
    ELSE IF n < 10 THEN Digit(n)
    ELSE IntToStr(n \div 10) \o Digit(n % 10)

\* str(v) of a metadata value
Str(v) ==
    CASE v.kind = "int" -> IntToStr(v.int)
      [] v.kind = "str" -> v.str
      [] v.kind = "bool" -> (IF v.bool THEN "True" ELSE "False")
      [] OTHER -> "None"

----------------------------------------------------------------------------
(* Inputs *)

DocA == [id |-> "A", content |-> Some("a"), score |-> None,
         meta |-> [k1 |-> IntVal(17), k2 |-> StrVal("x")]]

DocB == [id |-> "B", content |-> None, score |-> None,
         meta |-> [k2 |-> StrVal("")]]

DocPool == {DocA, DocB}

\* lists of Document objects, at most MaxDocs long; an object may occur at
\* several positions of a list
DocumentLists ==
    UNION {[1..n -> DocPool] : n \in 0..MaxDocs}

LogitSet == {0, 1}

Queries == {"q"}

TopKArgs == {None, Some(0 - 1), Some(0), Some(1)}

ScaleScoreArgs == {None, Some(TRUE), Some(FALSE)}

CalibrationArgs == {None, Some(2)}

ThresholdArgs == {None, Some(0)}

InitTopKs == {0, 2}

\* scale_score with calibration_factor
InitScalings == {<<TRUE, Some(0 - 1)>>, <<TRUE, None>>, <<FALSE, None>>}

InitThresholds == {None, Some(500)}

InitMetaFields == {None, Some(<<"k2", "k1">>)}

InitPrefixes == {<<"Q:", "D:">>}

----------------------------------------------------------------------------
(* the constructor *)

\* the ValueError conditions of the constructor
InitRaises(top_k, scale_score, calibration_factor) ==
    \/ top_k <= 0
    \/ scale_score /\ calibration_factor = None

init(top_k, query_prefix, document_prefix, meta_fields_to_embed, embedding_separator, scale_score, calibration_factor, score_threshold) ==
    [top_k |-> top_k,
     query_prefix |-> query_prefix,
     document_prefix |-> document_prefix,
     _model |-> FALSE,
     meta_fields_to_embed |->
         IF meta_fields_to_embed = None \/ meta_fields_to_embed[1] = <<>>
         THEN <<>> ELSE meta_fields_to_embed[1],
     embedding_separator |-> embedding_separator,
     scale_score |-> scale_score,
     calibration_factor |-> calibration_factor,
     score_threshold |-> score_threshold]

NoCall == [query |-> "", top_k |-> None, scale_score |-> None,
           calibration_factor |-> None, score_threshold |-> None]

NoResult == [outcome |-> "none", documents |-> <<>>]

Init ==
    /\ \E top_k \in InitTopKs, pre \in InitPrefixes, mf \in InitMetaFields,
          sc \in InitScalings, thr \in InitThresholds :
          /\ ~InitRaises(top_k, sc[1], sc[2])
          /\ ranker = init(top_k, pre[1], pre[2], mf, "\n",
                           sc[1], sc[2], thr)
    /\ pc = "idle"
    /\ call = NoCall
    /\ documents = <<>>
    /\ query_doc_pairs = <<>>
    /\ logits = <<>>
    /\ similarity_scores = <<>>
    /\ sorted_indices = <<>>
    /\ score_writes = <<>>
    /\ ranked_docs = <<>>
    /\ result = NoResult

----------------------------------------------------------------------------
(* warm_up *)

WarmUp ==
    /\ ranker' = IF ranker._model = FALSE
                 THEN [ranker EXCEPT !._model = TRUE]
                 ELSE ranker
    /\ UNCHANGED <<pc, call, documents, query_doc_pairs, logits,
                   similarity_scores, sorted_indices, score_writes,
                   ranked_docs, result>>

----------------------------------------------------------------------------
(* run: helpers, one per statement of the method *)

\* top_k = top_k or self.top_k
EffectiveTopK(self, top_k) ==
    IF top_k # None /\ top_k[1] # 0 THEN top_k[1] ELSE self.top_k

\* scale_score = scale_score or self.scale_score
EffectiveScaleScore(self, scale_score) ==
    IF scale_score # None /\ scale_score[1] THEN TRUE ELSE self.scale_score

\* calibration_factor = calibration_factor or self.calibration_factor
EffectiveCalibration(self, calibration_factor) ==
    IF calibration_factor # None /\ calibration_factor[1] # 0
    THEN calibration_factor
    ELSE self.calibration_factor

\* if score_threshold is None: score_threshold = self.score_threshold
EffectiveThreshold(self, score_threshold) ==
    IF score_threshold = None THEN self.score_threshold ELSE score_threshold

\* the comprehension without its "and doc.meta[key]" condition
meta_values_keep_falsy(self, doc) ==
    LET keys == SelectSeq(self.meta_fields_to_embed,
                          LAMBDA key : key \in DOMAIN doc.meta)
    IN  [i \in 1..Len(keys) |-> Str(doc.meta[keys[i]])]

\* [str(doc.meta[key]) for key in self.meta_fields_to_embed
\*      if key in doc.meta and doc.meta[key]]
meta_values_to_embed(self, doc) ==
    LET keys == SelectSeq(self.meta_fields_to_embed,
                          LAMBDA key : /\ key \in DOMAIN doc.meta
                                       /\ Truthy(doc.meta[key]))
    IN  [i \in 1..Len(keys) |-> Str(doc.meta[keys[i]])]

\* sep.join(parts)
RECURSIVE Join(_, _)
Join(sep, parts) ==
    IF parts = <<>> THEN ""
    ELSE IF Len(parts) = 1 THEN parts[1]
    ELSE parts[1] \o sep \o Join(sep, Tail(parts))

\* doc.content or ""
ContentOrEmpty(doc) ==
    IF doc.content # None /\ doc.content[1] # "" THEN doc.content[1] ELSE ""

text_to_embed(self, doc) ==
    Join(self.embedding_separator,
         meta_values_to_embed(self, doc) \o <<ContentOrEmpty(doc)>>)

QueryDocPairs(self, query, docs) ==
    [i \in 1..Len(docs) |->
        <<self.query_prefix \o query,
          self.document_prefix \o text_to_embed(self, docs[i])>>]

\* torch.sigmoid on a whole number between -7 and 7, in thousandths
Sigmoid(x) ==
    CASE x = 0 - 7 -> 1
      [] x = 0 - 6 -> 2
      [] x = 0 - 5 -> 7
      [] x = 0 - 4 -> 18
      [] x = 0 - 3 -> 47
      [] x = 0 - 2 -> 119
      [] x = 0 - 1 -> 269
      [] x = 0 -> 500
      [] x = 1 -> 731
      [] x = 2 -> 881
      [] x = 3 -> 953
      [] x = 4 -> 982
      [] x = 5 -> 993
      [] x = 6 -> 998
      [] x = 7 -> 999

\* self._model(**features).logits.squeeze(dim=1): what the cross-encoder may
\* return for the pairs, one logit per pair, the same for equal pairs
ModelLogits(pairs) ==
    {lg \in [1..Len(pairs) -> LogitSet] :
        \A i, j \in 1..Len(pairs) : pairs[i] = pairs[j] => lg[i] = lg[j]}

\* the logits as scores (thousandths), scaled when scale_score holds
SimilarityScores(lg, scale_score, calibration_factor) ==
    IF scale_score
    THEN [i \in 1..Len(lg) |-> Sigmoid(lg[i] * calibration_factor[1])]
    ELSE [i \in 1..Len(lg) |-> lg[i] * 1000]

\* the sort without descending=True
TorchSortAscending(scores) ==
    LET n == Len(scores)
    IN  {p \in Permutations(1..n) :
            \A i \in 1..n : i < n => scores[p[i]] <= scores[p[i + 1]]}

\* the documents taken in input order, without sorting
TorchSortSkipped(scores) ==
    {[i \in 1..Len(scores) |-> i]}

\* torch.sort(scores, descending=True) is not asked to be stable: any
\* permutation of the indices that puts the scores in non-increasing order
TorchSortDescending(scores) ==
    LET n == Len(scores)
    IN  {p \in Permutations(1..n) :
            \A i \in 1..n : i < n => scores[p[i]] >= scores[p[i + 1]]}

\* documents[i].score = s: the object at position i gets the score s, which
\* shows at every position of the list that holds this object
WriteScore(docs, i, s) ==
    [j \in 1..Len(docs) |->
        IF docs[j].id = docs[i].id
        THEN [docs[j] EXCEPT !.score = Some(s)]
        ELSE docs[j]]

\* for sorted_index in sorted_indices:
\*     documents[sorted_index].score = similarity_scores[sorted_index]
\* from the k-th index on, one write after the other
RECURSIVE AssignScores(_, _, _, _)
AssignScores(docs, scores, indices, k) ==
    IF k > Len(indices) THEN docs
    ELSE AssignScores(WriteScore(docs, indices[k], scores[indices[k]]),
                      scores, indices, k + 1)

\* the writes of the loop, in the order they are made
ScoreWrites(scores, indices) ==
    [k \in 1..Len(indices) |-> <<indices[k], scores[indices[k]]>>]

\* [doc for doc in ranked_docs if doc.score >= score_threshold]
ThresholdFilter(docs, score_threshold) ==
    IF score_threshold # None
    THEN SelectSeq(docs, LAMBDA doc : doc.score[1] >= score_threshold[1])
    ELSE docs

\* ranked_docs[:top_k], top_k > 0
Truncate(docs, top_k) ==
    SubSeq(docs, 1, IF top_k < Len(docs) THEN top_k ELSE Len(docs))

----------------------------------------------------------------------------
(* run *)

\* run ends before the model is asked for scores
Leave(args, docs, outcome) ==
    /\ pc' = "returned"
    /\ call' = args
    /\ documents' = docs
    /\ query_doc_pairs' = <<>>
    /\ logits' = <<>>
    /\ similarity_scores' = <<>>
    /\ sorted_indices' = <<>>
    /\ score_writes' = <<>>
    /\ ranked_docs' = <<>>
    /\ result' = [outcome |-> outcome, documents |-> <<>>]
    /\ UNCHANGED ranker

Run ==
    /\ pc = "idle"
    /\ \E query \in Queries, docs \in DocumentLists :
       \E pairs \in {QueryDocPairs(ranker, query, docs)} :
       \E top_k \in TopKArgs, scale_score \in ScaleScoreArgs,
          calibration_factor \in CalibrationArgs,
          score_threshold \in ThresholdArgs :
        LET args == [query |-> query, top_k |-> top_k,
                     scale_score |-> scale_score,
                     calibration_factor |-> calibration_factor,
                     score_threshold |-> score_threshold]
            k == EffectiveTopK(ranker, top_k)
            scale == EffectiveScaleScore(ranker, scale_score)
            cf == EffectiveCalibration(ranker, calibration_factor)
            thr == EffectiveThreshold(ranker, score_threshold)
        IN  IF docs = <<>> THEN Leave(args, docs, "ok")
            ELSE IF k <= 0 THEN Leave(args, docs, "ValueError")
            ELSE IF scale /\ cf = None THEN Leave(args, docs, "ValueError")
            ELSE IF ~ranker._model THEN Leave(args, docs, "ComponentError")
            ELSE \E lg \in ModelLogits(pairs) :
                 \E scores \in {SimilarityScores(lg, scale, cf)} :
                 \E p \in TorchSortDescending(scores) :
                 \E scored \in {AssignScores(docs, scores, p, 1)} :
                 \E kept \in {ThresholdFilter(
                                 [i \in 1..Len(p) |-> scored[p[i]]], thr)} :
                     /\ pc' = "returned"
                     /\ call' = args
                     /\ documents' = scored
                     /\ query_doc_pairs' = pairs
                     /\ logits' = lg
                     /\ similarity_scores' = scores
                     /\ sorted_indices' = p
                     /\ score_writes' = ScoreWrites(scores, p)
                     /\ ranked_docs' = kept
                     /\ result' = [outcome |-> "ok",
                                   documents |-> Truncate(kept, k)]
                     /\ UNCHANGED ranker

\* the caller takes the result; its next call brings its own documents
Collect ==
    /\ pc = "returned"
    /\ pc' = "idle"
    /\ call' = NoCall
    /\ documents' = <<>>
    /\ query_doc_pairs' = <<>>
    /\ logits' = <<>>
    /\ similarity_scores' = <<>>
    /\ sorted_indices' = <<>>
    /\ score_writes' = <<>>
    /\ ranked_docs' = <<>>
    /\ result' = NoResult
    /\ UNCHANGED ranker

Next == WarmUp \/ Run \/ Collect

Spec == Init /\ [][Next]_vars

TypeOK ==
    /\ pc \in {"idle", "returned"}
    /\ result.outcome \in {"none", "ok", "ValueError", "ComponentError"}
    /\ Len(result.documents) <= Len(documents)

----------------------------------------------------------------------------
(* Properties *)

\* run returned normally on a non-empty documents list
Ranked ==
    /\ pc = "returned"
    /\ result.outcome = "ok"
    /\ documents # <<>>

\* the score the code gives to a logit under the options in effect
ScoreOf(logit) ==
    IF EffectiveScaleScore(ranker, call.scale_score)
    THEN Sigmoid(logit * EffectiveCalibration(ranker,
                                              call.calibration_factor)[1])
    ELSE logit * 1000

\* the input positions that hold the same object as position i
Positions(i) ==
    {j \in 1..Len(documents) : documents[j].id = documents[i].id}

\* the object at input position i stands nowhere else in the list
Once(i) ==
    Positions(i) = {i}

\* the position in the returned list of the object at input position i, 0 if
\* it is not returned (its first position, should it be returned twice)
OutPos(i) ==
    LET out == result.documents
        at == {o \in 1..Len(out) : out[o].id = documents[i].id}
    IN  IF at = {} THEN 0 ELSE CHOOSE o \in at : \A q \in at : o <= q

\* the place of input position i in the ranking sorted_indices
RankPos(i) ==
    CHOOSE k \in 1..Len(sorted_indices) : sorted_indices[k] = i

\* C1: the documents returned by a successful run on a non-empty list are in
\* non-increasing order of score, and the score of each is the (optionally
\* scaled) similarity the model gave to that document
C1_SortedByScore ==
    Ranked =>
        LET out == result.documents
        IN  /\ \A i, j \in 1..Len(out) :
                  i < j => out[i].score[1] >= out[j].score[1]
            /\ \A o \in 1..Len(out) :
                  \A i \in 1..Len(documents) :
                      documents[i].id = out[o].id
                          => out[o].score = Some(ScoreOf(logits[i]))

\* a run that had to reorder a list of three with one object at two
\* positions: the last input document is returned first, with a strictly
\* higher scaled score than the one returned second
C1_Witness ==
    /\ Ranked
    /\ EffectiveScaleScore(ranker, call.scale_score)
    /\ Len(documents) = 3
    /\ documents[1].id = documents[2].id
    /\ Len(result.documents) = 2
    /\ result.documents[1].id = documents[3].id
    /\ result.documents[1].score[1] > result.documents[2].score[1]

\* C2: the returned list is the first min(top_k, n) of the n ranked documents
\* that passed the threshold filter, top_k being the argument of run when one
\* is given and the constructor's otherwise
C2_TopKBound ==
    Ranked =>
        LET k == IF call.top_k # None THEN call.top_k[1] ELSE ranker.top_k
            n == Len(ranked_docs)
        IN  /\ Len(result.documents) <= k
            /\ result.documents =
                   SubSeq(ranked_docs, 1, IF k < n THEN k ELSE n)

\* C3: with a threshold in effect (the argument of run unless None, else the
\* constructor's), every returned document has a score strictly above it
C3_StrictlyAboveThreshold ==
    Ranked =>
        LET thr == IF call.score_threshold # None
                   THEN call.score_threshold
                   ELSE ranker.score_threshold
            out == result.documents
        IN  thr # None =>
                /\ \A o \in 1..Len(out) : out[o].score[1] > thr[1]
                /\ \A i \in 1..Len(documents) :
                      documents[i].score[1] <= thr[1] => OutPos(i) = 0

\* C4: scale_score=False at run gives every document its raw logit as score,
\* scale_score=True gives the sigmoid, None leaves it to the constructor value
C4_ScaleScoreArgument ==
    Ranked =>
        LET scale == IF call.scale_score # None
                     THEN call.scale_score[1]
                     ELSE ranker.scale_score
            cf == EffectiveCalibration(ranker, call.calibration_factor)
        IN  \A i \in 1..Len(documents) :
                \E j \in Positions(i) :
                    documents[i].score =
                        Some(IF scale THEN Sigmoid(logits[j] * cf[1])
                                      ELSE logits[j] * 1000)

\* C5 as stated: two returned documents with equal scores keep the relative
\* order they had in the input list
C5_StableSort ==
    Ranked =>
        \A i, j \in 1..Len(documents) :
            (/\ i < j
             /\ Once(i)
             /\ Once(j)
             /\ OutPos(i) # 0
             /\ OutPos(j) # 0
             /\ documents[i].score = documents[j].score)
                => OutPos(i) < OutPos(j)

\* C5 amended: the sort is descending but need not be stable. Of two input
\* positions with different similarity scores the one with the higher score
\* is ranked first, and of two returned documents with different scores, each
\* standing once in the input list, the one with the higher score comes
\* first; equal scores may come in either order
C5_OrderedUpToTies ==
    Ranked =>
        /\ Len(sorted_indices) = Len(documents)
        /\ \A i \in 1..Len(documents) :
              \E k \in 1..Len(sorted_indices) : sorted_indices[k] = i
        /\ \A i, j \in 1..Len(documents) :
              similarity_scores[i] > similarity_scores[j]
                  => RankPos(i) < RankPos(j)
        /\ \A i, j \in 1..Len(documents) :
              (/\ Once(i)
               /\ Once(j)
               /\ OutPos(i) # 0
               /\ OutPos(j) # 0
               /\ documents[i].score[1] > documents[j].score[1])
                  => OutPos(i) < OutPos(j)

\* two documents are returned, each standing once in the input list, with
\* different raw scores, the lower one first in the input list
C5_Witness ==
    /\ Ranked
    /\ ~EffectiveScaleScore(ranker, call.scale_score)
    /\ Len(documents) = 2
    /\ Once(1)
    /\ OutPos(1) # 0
    /\ OutPos(2) # 0
    /\ documents[1].score[1] < documents[2].score[1]

\* the text of a document as C6 words it: the keys of meta_fields_to_embed
\* are taken one after the other, a key that is absent or has a falsy value
\* is passed over, the value of any other key is written as str(value)
\* followed by the separator, and the content (or "") comes last
RECURSIVE ExpectedText(_, _, _)
ExpectedText(keys, sep, doc) ==
    IF keys = <<>>
    THEN (IF doc.content = None THEN "" ELSE doc.content[1])
    ELSE IF Head(keys) \notin DOMAIN doc.meta
         THEN ExpectedText(Tail(keys), sep, doc)
    ELSE IF ~Truthy(doc.meta[Head(keys)])
         THEN ExpectedText(Tail(keys), sep, doc)
    ELSE Str(doc.meta[Head(keys)]) \o sep
             \o ExpectedText(Tail(keys), sep, doc)

\* C6: run builds one pair per input document, in input order,
\* [query_prefix + query, document_prefix + text], and the i-th score of the
\* model is assigned to the i-th input document: there is exactly one write
\* of a score to position i, of the i-th score, and a document that stands
\* once in the list has this score when run returns
C6_PairsAndScores ==
    Ranked =>
        /\ Len(query_doc_pairs) = Len(documents)
        /\ Len(logits) = Len(documents)
        /\ Len(score_writes) = Len(documents)
        /\ \A i \in 1..Len(documents) :
              /\ query_doc_pairs[i] =
                     <<ranker.query_prefix \o call.query,
                       ranker.document_prefix
                           \o ExpectedText(ranker.meta_fields_to_embed,
                                           ranker.embedding_separator,
                                           documents[i])>>
              /\ \E k \in 1..Len(score_writes) :
                    score_writes[k] = <<i, ScoreOf(logits[i])>>
              /\ Once(i) => documents[i].score = Some(ScoreOf(logits[i]))

\* pairs were built with metadata fields to embed, for a document that lacks
\* one of the keys, one with a falsy value, one with a truthy value that is
\* not a string, and one without content, and the model gave them different
\* logits
C6_Witness ==
    /\ Ranked
    /\ ranker.meta_fields_to_embed # <<>>
    /\ ranker.document_prefix # ""
    /\ \E i, j \in 1..Len(logits) : logits[i] # logits[j]
    /\ \E i \in 1..Len(documents) :
          \E f \in 1..Len(ranker.meta_fields_to_embed) :
              ranker.meta_fields_to_embed[f] \notin DOMAIN documents[i].meta
    /\ \E i \in 1..Len(documents) :
          \E key \in DOMAIN documents[i].meta :
              ~Truthy(documents[i].meta[key])
    /\ \E i \in 1..Len(documents) :
          \E key \in DOMAIN documents[i].meta :
              /\ Truthy(documents[i].meta[key])
              /\ documents[i].meta[key].kind # "str"
    /\ \E i \in 1..Len(documents) : documents[i].content = None

====
